---------------------------- MODULE Spec2Model ----------------------------
(***************************************************************************)
(* Model of the event wait loop of substrate-oracle-client (src/main.rs):  *)
(* wait_for_raw_custom_event / wait_for_custom_event running against an    *)
(* std::sync::mpsc channel of hex-encoded event-record blobs.              *)
(*                                                                         *)
(* Bytes are integers 0..255, a String is a sequence of one-character      *)
(* strings.  The calls the loop makes into substrate_api_client            *)
(* (hexstr_to_vec, EventsDecoder) and parity-scale-codec (Decode) are      *)
(* modelled byte by byte, so that what the loop returns can be compared    *)
(* with what the node encoded.                                             *)
(***************************************************************************)
EXTENDS Integers, Sequences, FiniteSets, TLC

(***************************************************************************)
(* Result<T, E>                                                            *)
(***************************************************************************)
Ok(v) == [tag |-> "Ok", val |-> v]

Err(e) == [tag |-> "Err", err |-> e]

None == [tag |-> "None"]

IsOk(r) == r.tag = "Ok"

IsErr(r) == r.tag = "Err"

\* F applied to the value of v, with v evaluated once (a let binding)
With(v, F(_)) == CHOOSE y \in {F(x) : x \in {v}} : TRUE

\* r?, then F of the value: an error is passed on, F is applied to a value
AndThen(r, F(_)) == With(r, LAMBDA x : IF x.tag = "Err" THEN x ELSE F(x.val))

(***************************************************************************)
(* Type sizes                                                              *)
(***************************************************************************)
OracleIdSize == 4

AccountIdSize == 32

(***************************************************************************)
(* Hex strings: utils::hexstr_to_vec                                        *)
(***************************************************************************)
HexDigits == <<"0", "1", "2", "3", "4", "5", "6", "7",
               "8", "9", "a", "b", "c", "d", "e", "f">>

UpperDigits == <<"0", "1", "2", "3", "4", "5", "6", "7",
                 "8", "9", "A", "B", "C", "D", "E", "F">>

IsHexDigit(c) == \E i \in 1..16 : HexDigits[i] = c \/ UpperDigits[i] = c

HexVal(c) == (CHOOSE i \in 1..16 : HexDigits[i] = c \/ UpperDigits[i] = c) - 1

Quote == "\""

\* str::trim_matches('"'): without the quotes at its start and at its end
TrimQuotes(s) ==
    With(s, LAMBDA str :
        LET n == Len(str)
            lead == CHOOSE k \in 0..n :
                        /\ \A i \in 1..k : str[i] = Quote
                        /\ (k = n \/ str[k + 1] # Quote)
            trail == CHOOSE k \in 0..n :
                         /\ \A i \in 1..k : str[n + 1 - i] = Quote
                         /\ (k = n \/ str[n - k] # Quote)
        IN  IF lead = n THEN <<>> ELSE SubSeq(str, lead + 1, n - trail))

\* str::trim_start_matches("0x"): without the prefix, as often as it repeats
TrimStart0x(s) ==
    LET n == CHOOSE k \in 0..(Len(s) \div 2) :
                /\ \A i \in 1..k : s[2 * i - 1] = "0" /\ s[2 * i] = "x"
                /\ ~(Len(s) >= 2 * k + 2 /\ s[2 * k + 1] = "0" /\ s[2 * k + 2] = "x")
    IN  SubSeq(s, 2 * n + 1, Len(s))

\* hex::decode
hex_decode(s) ==
    IF Len(s) % 2 # 0 THEN Err("Odd number of digits")
    ELSE IF \E i \in 1..Len(s) : ~IsHexDigit(s[i]) THEN Err("Invalid character")
    ELSE Ok([i \in 1..(Len(s) \div 2) |->
                16 * HexVal(s[2 * i - 1]) + HexVal(s[2 * i])])

\* Variant: hex::decode on the string as received
hexstr_to_vec_untrimmed(hexstr) == With(hexstr, LAMBDA t : hex_decode(t))

hexstr_to_vec(hexstr) ==
    With(TrimQuotes(hexstr), LAMBDA q :
        With(TrimStart0x(q), LAMBDA t :
            IF t = <<"n", "u", "l", "l">> THEN Ok(<<0>>) ELSE hex_decode(t)))

(***************************************************************************)
(* SCALE primitives: a decoder returns Ok([v, rest]) or Err                 *)
(***************************************************************************)
Cur(v, rest) == [v |-> v, rest |-> rest]

NotEnough == Err("Not enough data to fill buffer")

\* Input::read_byte
read_byte(input) ==
    IF input = <<>> THEN NotEnough ELSE Ok(Cur(Head(input), Tail(input)))

\* Input::read into a buffer of n bytes
read(input, n) ==
    IF Len(input) < n THEN NotEnough
    ELSE Ok(Cur(SubSeq(input, 1, n), SubSeq(input, n + 1, Len(input))))

RECURSIVE LittleEndian(_)
LittleEndian(bytes) ==
    IF bytes = <<>> THEN 0 ELSE Head(bytes) + 256 * LittleEndian(Tail(bytes))

\* <u32 as Decode>::decode
u32_decode(input) ==
    AndThen(read(input, 4), LAMBDA r : Ok(Cur(LittleEndian(r.v), r.rest)))

\* <Compact<u32> as Decode>::decode
compact_decode(input) ==
    AndThen(read_byte(input), LAMBDA b :
        LET mode == b.v % 4
        IN  IF mode = 0 THEN Ok(Cur(b.v \div 4, b.rest))
            ELSE IF mode = 3
            THEN IF b.v \div 4 = 0
                 THEN u32_decode(b.rest)
                 ELSE Err("unexpected prefix decoding Compact<u32>")
            ELSE AndThen(read(b.rest, IF mode = 1 THEN 1 ELSE 3), LAMBDA r :
                     Ok(Cur(LittleEndian(<<b.v>> \o r.v) \div 4, r.rest))))

(***************************************************************************)
(* The schema (self.metadata) and the node's side of the feed               *)
(***************************************************************************)
Event(name, args) == [name |-> name, args |-> args]

\* Api::metadata: modules with events by module index (0-based), each with
\* its events by variant index (0-based) and their argument type names.
\* "AssetId" is an alias of this client (u32) that no decoder knows.
Metadata ==
    << [name |-> "OracleModule",
        events |-> << Event("OracleCreated", <<"OracleId", "AccountId">>),
                      Event("OracleUpdated", <<"OracleId", "AccountId", "u8">>),
                      Event("OracleRemoved", <<"OracleId">>) >>],
       [name |-> "Assets",
        events |-> << Event("Issued", <<"AssetId", "AccountId">>) >>] >>

\* Type sizes every EventsDecoder starts with (those the schema above uses)
DefaultTypeSizes ==
    [n \in {"u8", "u32", "AccountId"} |->
        CASE n = "u8" -> 1 [] n = "u32" -> 4 [] n = "AccountId" -> AccountIdSize]

\* EventsDecoder::try_from(metadata)
EventsDecoder_try_from(metadata) ==
    Ok([metadata |-> metadata, type_sizes |-> DefaultTypeSizes])

\* Variant: a plain map insert, the later size replaces the earlier one
register_type_size_insert(decoder, name, size) ==
    IF size <= 0 THEN Err("TypeSizeUnavailable")
    ELSE Ok([decoder EXCEPT !.type_sizes =
                [n \in DOMAIN decoder.type_sizes \cup {name} |->
                    IF n = name THEN size ELSE decoder.type_sizes[n]]])

\* EventsDecoder::register_type_size, by the registration contract: a size
\* of zero and a conflicting re-registration fail, an identical one is a
\* no-op.
register_type_size(decoder, name, size) ==
    IF size <= 0 THEN Err("TypeSizeUnavailable")
    ELSE IF name \in DOMAIN decoder.type_sizes
    THEN IF decoder.type_sizes[name] = size
         THEN Ok(decoder)
         ELSE Err("ConflictingTypeSize")
    ELSE Ok([decoder EXCEPT !.type_sizes =
                [n \in DOMAIN decoder.type_sizes \cup {name} |->
                    IF n = name THEN size ELSE decoder.type_sizes[n]]])

(***************************************************************************)
(* EventsDecoder::decode_events                                            *)
(***************************************************************************)
\* Phase::decode
Phase_decode(input) ==
    AndThen(read_byte(input), LAMBDA b :
        IF b.v = 0
        THEN AndThen(u32_decode(b.rest), LAMBDA n :
                 Ok(Cur([phase |-> "ApplyExtrinsic", index |-> n.v], n.rest)))
        ELSE IF b.v = 1 THEN Ok(Cur([phase |-> "Finalization"], b.rest))
        ELSE IF b.v = 2 THEN Ok(Cur([phase |-> "Initialization"], b.rest))
        ELSE Err("No such variant in enum Phase"))

\* EventsDecoder::decode_raw_bytes: copies each argument's bytes, by its
\* registered size, from the input to the event's data
RECURSIVE decode_raw_bytes(_, _, _, _)
decode_raw_bytes(decoder, args, input, output) ==
    IF args = <<>> THEN Ok(Cur(output, input))
    ELSE IF Head(args) \notin DOMAIN decoder.type_sizes
    THEN Err("TypeSizeUnavailable")
    ELSE AndThen(read(input, decoder.type_sizes[Head(args)]), LAMBDA r :
             decode_raw_bytes(decoder, Tail(args), r.rest, output \o r.v))

\* Vec::<Hash>::decode: the record's topics
topics_decode(input) ==
    AndThen(compact_decode(input), LAMBDA n :
        AndThen(read(n.rest, 32 * n.v), LAMBDA r : Ok(Cur(n.v, r.rest))))

\* One EventRecord: phase, module index, variant index, arguments, topics
decode_record(decoder, input) ==
    AndThen(Phase_decode(input), LAMBDA phase :
    AndThen(read_byte(phase.rest), LAMBDA mv :
        IF mv.v + 1 > Len(decoder.metadata) THEN Err("ModuleIndexNotFound")
        ELSE
    AndThen(read_byte(mv.rest), LAMBDA ev :
        IF ev.v + 1 > Len(decoder.metadata[mv.v + 1].events)
        THEN Err("EventNotFound")
        ELSE
    AndThen(decode_raw_bytes(decoder,
                             decoder.metadata[mv.v + 1].events[ev.v + 1].args,
                             ev.rest, <<>>), LAMBDA data :
    AndThen(topics_decode(data.rest), LAMBDA topics :
        Ok(Cur([phase |-> phase.v,
                event |-> [module |-> decoder.metadata[mv.v + 1].name,
                           variant |-> decoder.metadata[mv.v + 1].events[ev.v + 1].name,
                           data |-> data.v]],
               topics.rest)))))))

RECURSIVE decode_records(_, _, _, _)
decode_records(decoder, n, input, acc) ==
    IF n = 0 THEN Ok(acc)
    ELSE AndThen(decode_record(decoder, input), LAMBDA r :
             decode_records(decoder, n - 1, r.rest, Append(acc, r.v)))

\* Ok(the blob's (phase, event) records in order), or the first error
decode_events(decoder, input) ==
    AndThen(compact_decode(input), LAMBDA len :
        decode_records(decoder, len.v, len.rest, <<>>))

(***************************************************************************)
(* OracleCreatedArgs                                                       *)
(***************************************************************************)
\* Variant: the fields declared in the other order
OracleCreatedArgs_decode_swapped(data) ==
    AndThen(read(data, AccountIdSize), LAMBDA creater :
        AndThen(u32_decode(creater.rest), LAMBDA oracle :
            Ok([oracle |-> oracle.v, creater |-> creater.v])))

\* <OracleCreatedArgs as Decode>::decode (derived): the fields in order of
\* declaration, oracle: u32 then creater: AccountId ([u8; 32])
OracleCreatedArgs_decode(data) ==
    AndThen(u32_decode(data), LAMBDA oracle :
        AndThen(read(oracle.rest, AccountIdSize), LAMBDA creater :
            Ok([oracle |-> oracle.v, creater |-> creater.v])))

(***************************************************************************)
(* The feed: what the node encodes and the subscription sends               *)
(***************************************************************************)
\* <u32 as Encode>::encode
u32_encode(n) ==
    <<n % 256, (n \div 256) % 256, (n \div 65536) % 256, (n \div 16777216) % 256>>

\* <Compact<u32> as Encode>::encode, single-byte mode (n < 64)
compact_encode(n) == <<4 * n>>

\* Two accounts.  Their bytes are below 128, so that any four bytes of the
\* feed read as a little-endian u32 stay within TLC's integers
Alice == [i \in 1..AccountIdSize |-> i]

Bob == [i \in 1..AccountIdSize |-> 64 + i]

\* An event as the runtime emitted it: its names, its indices in the
\* runtime's module and event tables, and its encoded arguments
Emitted(phase, module, variant, mi, vi, data) ==
    [phase |-> phase, module |-> module, variant |-> variant,
     mi |-> mi, vi |-> vi, data |-> data]

ApplyExtrinsic1 == <<0>> \o u32_encode(1)

Finalization == <<1>>

OracleCreated(id, who) ==
    Emitted(ApplyExtrinsic1, "OracleModule", "OracleCreated", 0, 0,
            u32_encode(id) \o who)

OracleUpdated(id, who, flag) ==
    Emitted(ApplyExtrinsic1, "OracleModule", "OracleUpdated", 0, 1,
            u32_encode(id) \o who \o <<flag>>)

OracleRemoved(id) ==
    Emitted(Finalization, "OracleModule", "OracleRemoved", 0, 2, u32_encode(id))

AssetIssued(asset, who) ==
    Emitted(ApplyExtrinsic1, "Assets", "Issued", 1, 0, u32_encode(asset) \o who)

\* EventRecord::encode: phase, event (module index, variant index,
\* arguments), topics (none)
EncodeRecord(e) == e.phase \o <<e.mi, e.vi>> \o e.data \o compact_encode(0)

RECURSIVE EncodeRecords(_)
EncodeRecords(es) ==
    IF es = <<>> THEN <<>> ELSE EncodeRecord(Head(es)) \o EncodeRecords(Tail(es))

\* Vec<EventRecord>::encode
EncodeEvents(es) == compact_encode(Len(es)) \o EncodeRecords(es)

HexChars(bytes) ==
    [i \in 1..(2 * Len(bytes)) |->
        IF i % 2 = 1 THEN HexDigits[(bytes[(i + 1) \div 2] \div 16) + 1]
        ELSE HexDigits[(bytes[i \div 2] % 16) + 1]]

\* The JSON string of a storage change: "0x..." with its quotes
ToHexStr(bytes) ==
    With(bytes, LAMBDA b : <<Quote, "0", "x">> \o HexChars(b) \o <<Quote>>)

\* A message of the feed: the string sent, and (not read by the client)
\* the events the node emitted in that block and what became of the string
Blob(events, kind, hex) == [events |-> events, kind |-> kind, hex |-> hex]

Sound(events) == Blob(events, "sound", ToHexStr(EncodeEvents(events)))

\* the storage value is absent
NullBlob == Blob(<<>>, "sound", <<"n", "u", "l", "l">>)

\* a block with an event of a type the client has no size for
Unsized(events) == Blob(events, "unsized", ToHexStr(EncodeEvents(events)))

\* one hex digit lost in transport
OddBlob(events) ==
    With(EncodeEvents(events), LAMBDA b :
        Blob(events, "badhex",
             <<"0", "x">> \o SubSeq(HexChars(b), 1, 2 * Len(b) - 1)))

\* a character that is no hex digit
GarbledBlob(events) ==
    With(EncodeEvents(events), LAMBDA b :
        Blob(events, "badhex",
             <<"0", "x", "z", "z">> \o SubSeq(HexChars(b), 3, 2 * Len(b))))

\* the record list cut short by n bytes
TruncatedBlob(events, n) ==
    With(EncodeEvents(events), LAMBDA b :
        Blob(events, "truncated", ToHexStr(SubSeq(b, 1, Len(b) - n))))

\* an event of a module, or a variant, the client's metadata does not have
ForeignBlob(mi, vi) ==
    Blob(<<Emitted(Finalization, "Unknown", "Unknown", mi, vi, <<>>)>>, "foreign",
         ToHexStr(EncodeEvents(<<Emitted(Finalization, "Unknown", "Unknown",
                                         mi, vi, <<>>)>>)))

\* The blocks the node may produce
BlobPool ==
    { NullBlob,
      Sound(<<OracleCreated(7, Alice)>>),
      Sound(<<OracleRemoved(7), OracleCreated(7, Alice), OracleUpdated(9, Bob, 1)>>),
      Sound(<<OracleCreated(8, Bob), OracleCreated(7, Alice)>>),
      Unsized(<<OracleCreated(7, Alice), AssetIssued(1, Alice)>>),
      OddBlob(<<OracleCreated(7, Alice)>>),
      GarbledBlob(<<OracleCreated(7, Alice)>>),
      TruncatedBlob(<<OracleCreated(7, Alice)>>, 3),
      ForeignBlob(5, 0),
      ForeignBlob(0, 9) }

\* The (module, variant) pairs a caller may wait for
Targets ==
    { <<"OracleModule", "OracleCreated">>,
      <<"OracleModule", "OracleUpdated">>,
      <<"OracleModule", "OracleRemoved">>,
      <<"oraclemodule", "OracleCreated">>,
      <<"OracleModule", "oraclecreated">> }

(***************************************************************************)
(* State                                                                   *)
(***************************************************************************)
\* The feed sends at most MaxBlobs blobs in a run
MaxBlobs == 2

\* Sender handles of the channel: events_in and the clone handed to
\* subscribe_events
InitialSenders == 2

VARIABLES
    module,      \* the module waited for
    variant,     \* the event name waited for
    queue,       \* the channel: blobs sent and not yet received
    senders,     \* number of Sender handles not yet dropped
    received,    \* history: the blobs recv() has returned, in order
    pc,          \* "idle": the wait is not called yet;
                 \* "awaiting": in the loop; "returned": the raw wait has
                 \* returned; "done": wait_for_custom_event has returned
    raw_result,  \* what wait_for_raw_custom_event returned (None before)
    result,      \* what wait_for_custom_event returned (None before)
    registry,    \* a decoder whose type sizes are registered one by one
    reg_call,    \* the last registration asked of it (None before)
    reg_result   \* and what that registration returned (None before)

VARIABLES
    metadata,       \* self.metadata of the Api the wait is called on
    event_decoder,  \* the loop's local decoder, as the last iteration built
                    \* it (None before the first)
    sent,           \* history: the blobs put on the channel, in order
    other,          \* a second wait on the same receiver: its target, pc,
                    \* received history and raw result (pc "absent": none)
    main_pc,        \* main: index in MainOrder of its next statement
                    \* (0: the wait was called by some other caller)
    panicked,       \* main: the assert! on the submission has failed
    sub,            \* the subscription and its Sender clone: "none",
                    \* "active", "dropped"
    submits,        \* number of send_extrinsic calls made
    submit_ok,      \* the last one's result: "none", "ok", "err"
    produced,       \* number of blocks the node has produced since main began
    emitted         \* history: the blobs of the blocks produced after the
                    \* submission succeeded

waitvars == <<module, variant, queue, senders, received, pc, raw_result, result>>

regvars == <<registry, reg_call, reg_result>>

decvars == <<metadata, event_decoder>>

mainvars == <<main_pc, panicked, sub, submits, submit_ok, produced, emitted>>

vars == <<waitvars, regvars, decvars, sent, other, mainvars>>

\* no second wait
Absent ==
    [module |-> "", variant |-> "", pc |-> "absent", received |-> <<>>,
     raw_result |-> None]

Init ==
    /\ \E t \in Targets : module = t[1] /\ variant = t[2]
    /\ queue = <<>>
    /\ senders = InitialSenders
    /\ received = <<>>
    /\ pc = "awaiting"
    /\ raw_result = None
    /\ result = None
    /\ registry = EventsDecoder_try_from(Metadata).val
    /\ reg_call = None
    /\ reg_result = None
    /\ metadata = Metadata
    /\ event_decoder = None
    /\ sent = <<>>
    /\ other = Absent
    /\ main_pc = 0
    /\ panicked = FALSE
    /\ sub = "active"
    /\ submits = 0
    /\ submit_ok = "none"
    /\ produced = 0
    /\ emitted = <<>>

(***************************************************************************)
(* The channel                                                             *)
(***************************************************************************)
\* Sender::send by the subscription: one more block's events
Send ==
    /\ senders > 0
    /\ Len(sent) < MaxBlobs
    /\ \E b \in BlobPool : queue' = Append(queue, b) /\ sent' = Append(sent, b)
    /\ UNCHANGED <<module, variant, senders, received, pc, raw_result, result>>
    /\ UNCHANGED <<regvars, decvars, other, mainvars>>

\* A Sender handle is dropped
DropSender ==
    /\ senders > 0
    /\ senders' = senders - 1
    /\ UNCHANGED <<module, variant, queue, received, pc, raw_result, result>>
    /\ UNCHANGED <<regvars, decvars, sent, other, mainvars>>

\* Variant: the newest message is handed out first
recv_newest(q, n) ==
    IF q # <<>> THEN Ok(q[Len(q)])
    ELSE IF n = 0 THEN Err("receiving on a closed channel")
    ELSE [tag |-> "Blocked"]

\* Variant: recv_timeout, which gives up on an empty open channel
recv_timeout(q, n) ==
    IF q # <<>> THEN Ok(Head(q))
    ELSE IF n = 0 THEN Err("receiving on a closed channel")
    ELSE Err("timed out waiting on channel")

\* Receiver::recv: the next message; an error once the queue is empty and
\* every sender is gone; otherwise it blocks
recv(q, n) ==
    IF q # <<>> THEN Ok(Head(q))
    ELSE IF n = 0 THEN Err("receiving on a closed channel")
    ELSE [tag |-> "Blocked"]

(***************************************************************************)
(* wait_for_raw_custom_event                                               *)
(***************************************************************************)
\* Variant: the decoder is built without the OracleId registration
IterationDecoderBare == EventsDecoder_try_from(metadata).val

\* The decoder an iteration builds: try_from(metadata.clone()).unwrap(),
\* then register_type_size::<OracleId>("OracleId").unwrap()
IterationDecoder ==
    register_type_size(EventsDecoder_try_from(metadata).val,
                       "OracleId", OracleIdSize).val

\* Variant: the guard compares the module only
MatchesModuleOnly(raw, m, v) == raw.module = m

\* The match guard of the for loop
Matches(raw, m, v) == raw.module = m /\ raw.variant = v

\* Variant: the loop runs to the end and the last accepted event is returned
RECURSIVE ScanEventsLast(_, _, _)
ScanEventsLast(raw_events, m, v) ==
    IF raw_events = <<>> THEN None
    ELSE With(ScanEventsLast(Tail(raw_events), m, v), LAMBDA later :
             IF later # None THEN later
             ELSE IF Head(raw_events).event.module = m
                     /\ Head(raw_events).event.variant = v
             THEN Ok(Head(raw_events).event)
             ELSE None)

\* Variant: a blob without the event is an error
RECURSIVE ScanEventsOrErr(_, _, _)
ScanEventsOrErr(raw_events, m, v) ==
    IF raw_events = <<>> THEN Err("event not found")
    ELSE IF Head(raw_events).event.module = m /\ Head(raw_events).event.variant = v
    THEN Ok(Head(raw_events).event)
    ELSE ScanEventsOrErr(Tail(raw_events), m, v)

\* for (_phase, event) in raw_events: the first event the guard accepts is
\* returned; None when the loop ends without a return
RECURSIVE ScanEvents(_, _, _)
ScanEvents(raw_events, m, v) ==
    IF raw_events = <<>> THEN None
    ELSE IF Matches(Head(raw_events).event, m, v)
    THEN Ok(Head(raw_events).event)
    ELSE ScanEvents(Tail(raw_events), m, v)

\* Variant: recv's error is ignored and the loop goes round again
OnRecvErrorRetry(err) == None

\* What the loop does with recv's error: `?` returns it
OnRecvError(err) == Err(err)

\* What the loop does with hexstr_to_vec's error: `?` returns it
OnHexError(err) == Err(err)

\* Variant: decode_events' error is returned with `?`
OnDecodeErrorReturn(err) == Err(err)

\* What the loop does with decode_events' error: logs, next iteration
OnDecodeError(err) == None

\* The body of the loop after recv: Ok/Err when the function returns in
\* this iteration, None when it goes on to the next
Iteration(hexstr, m, v) ==
    With(hexstr_to_vec(hexstr), LAMBDA unhex :
        IF IsErr(unhex) THEN OnHexError(unhex.err)
        ELSE With(decode_events(IterationDecoder, unhex.val), LAMBDA decoded :
                 IF IsOk(decoded)
                 THEN ScanEvents(decoded.val, m, v)
                 ELSE OnDecodeError(decoded.err)))

\* One pass of the loop, from recv to return or to the next recv
WaitStep ==
    /\ pc = "awaiting"
    /\ LET msg == recv(queue, senders)
       IN  /\ msg.tag # "Blocked"
           /\ IF IsErr(msg)
              THEN /\ raw_result' = OnRecvError(msg.err)
                   /\ pc' = IF raw_result' = None THEN "awaiting" ELSE "returned"
                   /\ UNCHANGED <<queue, received, event_decoder>>
              ELSE /\ queue' = Tail(queue)
                   /\ received' = Append(received, msg.val)
                   /\ event_decoder' =
                          IF IsOk(hexstr_to_vec(msg.val.hex))
                          THEN IterationDecoder ELSE event_decoder
                   /\ raw_result' = Iteration(msg.val.hex, module, variant)
                   /\ pc' = IF raw_result' = None THEN "awaiting" ELSE "returned"
    /\ UNCHANGED <<module, variant, senders, result>>
    /\ UNCHANGED <<regvars, metadata, sent, other, mainvars>>

(***************************************************************************)
(* wait_for_custom_event::<OracleCreatedArgs>                              *)
(***************************************************************************)
\* .map(|raw| E::decode(&mut &raw.data[..]).map_err(..)).flatten()
MapDecode(raw) ==
    IF IsErr(raw) THEN raw ELSE OracleCreatedArgs_decode(raw.val.data)

TypedReturn ==
    /\ pc = "returned"
    /\ result' = MapDecode(raw_result)
    /\ pc' = "done"
    /\ UNCHANGED <<module, variant, queue, senders, received, raw_result>>
    /\ UNCHANGED <<regvars, decvars, sent, other, mainvars>>

Next == Send \/ DropSender \/ WaitStep \/ TypedReturn

Spec == Init /\ [][Next]_vars

TypeOK ==
    /\ <<module, variant>> \in Targets
    /\ senders \in 0..InitialSenders
    /\ Len(queue) + Len(received) <= MaxBlobs
    /\ pc \in {"idle", "awaiting", "returned", "done"}
    /\ raw_result.tag \in {"None", "Ok", "Err"}
    /\ result.tag \in {"None", "Ok", "Err"}
    /\ (pc \in {"idle", "awaiting"}) = (raw_result = None)
    /\ (pc = "done") = (result # None)

(***************************************************************************)
(* Type-size registration on one decoder                                   *)
(***************************************************************************)
\* Sizes asked for are 0..MaxTypeSize
MaxTypeSize == 4

RegNames == {"OracleId", "AssetId", "u32"}

\* decoder.register_type_size(name) for a type of the given encoded size
Register ==
    /\ \E name \in RegNames, size \in 0..MaxTypeSize :
          LET r == register_type_size(registry, name, size)
          IN  /\ reg_call' = [tag |-> "Call", name |-> name, size |-> size]
              /\ reg_result' = IF IsOk(r) THEN Ok(size) ELSE r
              /\ registry' = IF IsOk(r) THEN r.val ELSE registry
    /\ UNCHANGED <<waitvars, decvars, sent, other, mainvars>>

RegNext == Register

RegSpec == Init /\ [][RegNext]_vars

(***************************************************************************)
(* main: the channel, the subscription, the submission, the wait           *)
(***************************************************************************)
ORACLE_MODULE == "OracleModule"

ORACLE_CREATED_EVENT == "OracleCreated"

\* Variant: the extrinsic is sent before the subscription is asked for
MainOrderSubmitFirst ==
    <<"send_extrinsic", "subscribe_events", "wait_for_custom_event">>

\* The statements of main after channel(), in program order (get_storage,
\* create_oracle and the printing touch nothing of the state kept here)
MainOrder ==
    <<"subscribe_events", "send_extrinsic", "wait_for_custom_event">>

\* main's next statement
Statement ==
    IF ~panicked /\ main_pc \in 1..Len(MainOrder)
    THEN MainOrder[main_pc] ELSE "none"

\* let (events_in, events_out) = channel(): main holds the one Sender
MainInit ==
    /\ module = ORACLE_MODULE
    /\ variant = ORACLE_CREATED_EVENT
    /\ queue = <<>>
    /\ senders = 1
    /\ received = <<>>
    /\ pc = "idle"
    /\ raw_result = None
    /\ result = None
    /\ registry = EventsDecoder_try_from(Metadata).val
    /\ reg_call = None
    /\ reg_result = None
    /\ metadata = Metadata
    /\ event_decoder = None
    /\ sent = <<>>
    /\ other = Absent
    /\ main_pc = 1
    /\ panicked = FALSE
    /\ sub = "none"
    /\ submits = 0
    /\ submit_ok = "none"
    /\ produced = 0
    /\ emitted = <<>>

\* api.subscribe_events(events_in.clone()): the subscription gets a clone
\* of the Sender
MainSubscribe ==
    /\ Statement = "subscribe_events"
    /\ sub' = "active"
    /\ senders' = senders + 1
    /\ main_pc' = main_pc + 1
    /\ UNCHANGED <<module, variant, queue, received, pc, raw_result, result>>
    /\ UNCHANGED <<regvars, decvars, sent, other>>
    /\ UNCHANGED <<panicked, submits, submit_ok, produced, emitted>>

\* Variant: the result of send_extrinsic is not looked at
AfterSubmitIgnored(ok) == "next"

\* assert!(api.send_extrinsic(xt).is_ok())
AfterSubmit(ok) == IF ok THEN "next" ELSE "panic"

\* The submission; the node accepts the extrinsic or it does not
MainSubmit ==
    /\ Statement = "send_extrinsic"
    /\ \E ok \in BOOLEAN :
          /\ submits' = submits + 1
          /\ submit_ok' = IF ok THEN "ok" ELSE "err"
          /\ IF AfterSubmit(ok) = "next"
             THEN main_pc' = main_pc + 1 /\ panicked' = FALSE
             ELSE main_pc' = main_pc /\ panicked' = TRUE
    /\ UNCHANGED <<waitvars, regvars, decvars, sent, other>>
    /\ UNCHANGED <<sub, produced, emitted>>

\* api.wait_for_custom_event(ORACLE_MODULE, ORACLE_CREATED_EVENT, &events_out)
MainWait ==
    /\ Statement = "wait_for_custom_event"
    /\ pc = "idle"
    /\ pc' = "awaiting"
    /\ main_pc' = main_pc + 1
    /\ UNCHANGED <<module, variant, queue, senders, received, raw_result, result>>
    /\ UNCHANGED <<regvars, decvars, sent, other>>
    /\ UNCHANGED <<panicked, sub, submits, submit_ok, produced, emitted>>

\* The wait has returned, args is printed, main ends: events_in is dropped
MainEnd ==
    /\ ~panicked
    /\ main_pc = Len(MainOrder) + 1
    /\ pc = "done"
    /\ main_pc' = main_pc + 1
    /\ senders' = senders - 1
    /\ UNCHANGED <<module, variant, queue, received, pc, raw_result, result>>
    /\ UNCHANGED <<regvars, decvars, sent, other>>
    /\ UNCHANGED <<panicked, sub, submits, submit_ok, produced, emitted>>

\* The node produces a block; the subscription, when there is one, sends
\* the block's events down the channel
NodeBlock ==
    /\ ~panicked
    /\ main_pc \in 1..(Len(MainOrder) + 1)
    /\ produced < MaxBlobs
    /\ produced' = produced + 1
    /\ \E b \in BlobPool :
          /\ emitted' = IF submit_ok = "ok" THEN Append(emitted, b) ELSE emitted
          /\ IF sub = "active"
             THEN queue' = Append(queue, b) /\ sent' = Append(sent, b)
             ELSE UNCHANGED <<queue, sent>>
    /\ UNCHANGED <<module, variant, senders, received, pc, raw_result, result>>
    /\ UNCHANGED <<regvars, decvars, other>>
    /\ UNCHANGED <<main_pc, panicked, sub, submits, submit_ok>>

\* The subscription ends (its connection is lost): its Sender is dropped
SubscriptionEnds ==
    /\ ~panicked
    /\ main_pc \in 1..(Len(MainOrder) + 1)
    /\ sub = "active"
    /\ sub' = "dropped"
    /\ senders' = senders - 1
    /\ UNCHANGED <<module, variant, queue, received, pc, raw_result, result>>
    /\ UNCHANGED <<regvars, decvars, sent, other>>
    /\ UNCHANGED <<main_pc, panicked, submits, submit_ok, produced, emitted>>

MainNext ==
    \/ MainSubscribe
    \/ MainSubmit
    \/ MainWait
    \/ WaitStep
    \/ TypedReturn
    \/ MainEnd
    \/ NodeBlock
    \/ SubscriptionEnds

MainSpec == MainInit /\ [][MainNext]_vars

(***************************************************************************)
(* Two calls of wait_for_raw_custom_event on one receiver                  *)
(***************************************************************************)
\* The targets of the second call
OtherTargets ==
    { <<ORACLE_MODULE, ORACLE_CREATED_EVENT>>, <<ORACLE_MODULE, "OracleUpdated">> }

TwoInit ==
    /\ module = ORACLE_MODULE
    /\ variant = ORACLE_CREATED_EVENT
    /\ queue = <<>>
    /\ senders = InitialSenders
    /\ received = <<>>
    /\ pc = "awaiting"
    /\ raw_result = None
    /\ result = None
    /\ registry = EventsDecoder_try_from(Metadata).val
    /\ reg_call = None
    /\ reg_result = None
    /\ metadata = Metadata
    /\ event_decoder = None
    /\ sent = <<>>
    /\ \E t \in OtherTargets :
          other = [module |-> t[1], variant |-> t[2], pc |-> "awaiting",
                   received |-> <<>>, raw_result |-> None]
    /\ main_pc = 0
    /\ panicked = FALSE
    /\ sub = "active"
    /\ submits = 0
    /\ submit_ok = "none"
    /\ produced = 0
    /\ emitted = <<>>

\* Variant: the second call reads the head of the queue and leaves it there
OtherWaitStepPeek ==
    /\ other.pc = "awaiting"
    /\ LET msg == recv(queue, senders)
       IN  /\ msg.tag # "Blocked"
           /\ IF IsErr(msg)
              THEN other' =
                     With(OnRecvError(msg.err), LAMBDA r :
                         [other EXCEPT
                            !.raw_result = r,
                            !.pc = IF r = None THEN "awaiting" ELSE "returned"])
              ELSE other' =
                     With(Iteration(msg.val.hex, other.module, other.variant),
                          LAMBDA r :
                            [other EXCEPT
                               !.received = Append(@, msg.val),
                               !.raw_result = r,
                               !.pc = IF r = None THEN "awaiting"
                                      ELSE "returned"])
           /\ UNCHANGED queue
    /\ UNCHANGED <<module, variant, senders, received, pc, raw_result, result>>
    /\ UNCHANGED <<regvars, decvars, sent, mainvars>>

\* One pass of the loop of the second call
OtherWaitStep ==
    /\ other.pc = "awaiting"
    /\ LET msg == recv(queue, senders)
       IN  /\ msg.tag # "Blocked"
           /\ IF IsErr(msg)
              THEN /\ other' =
                          With(OnRecvError(msg.err), LAMBDA r :
                              [other EXCEPT
                                 !.raw_result = r,
                                 !.pc = IF r = None THEN "awaiting"
                                        ELSE "returned"])
                   /\ UNCHANGED queue
              ELSE /\ queue' = Tail(queue)
                   /\ other' =
                          With(Iteration(msg.val.hex, other.module, other.variant),
                               LAMBDA r :
                                 [other EXCEPT
                                    !.received = Append(@, msg.val),
                                    !.raw_result = r,
                                    !.pc = IF r = None THEN "awaiting"
                                           ELSE "returned"])
    /\ UNCHANGED <<module, variant, senders, received, pc, raw_result, result>>
    /\ UNCHANGED <<regvars, decvars, sent, mainvars>>

TwoNext == Send \/ DropSender \/ WaitStep \/ OtherWaitStep

TwoWaitSpec == TwoInit /\ [][TwoNext]_vars

(***************************************************************************)
(* Properties.  They compare what the wait returns with the events the     *)
(* node emitted (the `events` of the blobs received), not with the         *)
(* decoder's own output.                                                   *)
(***************************************************************************)
Last(seq) == seq[Len(seq)]

ClosedError == Err("receiving on a closed channel")

\* the emitted event e is the one waited for
IsTarget(e) == e.module = module /\ e.variant = variant

\* positions of the waited-for event among the events emitted in blob b
TargetPositions(b) == {i \in 1..Len(b.events) : IsTarget(b.events[i])}

FirstTarget(b) ==
    b.events[CHOOSE i \in TargetPositions(b) : \A j \in TargetPositions(b) : i <= j]

\* the RawEvent of an emitted event
RawOf(e) == [module |-> e.module, variant |-> e.variant, data |-> e.data]

\* the client decodes blob b: its hex and its record list
DecodesOk(b) ==
    IsOk(AndThen(hexstr_to_vec(b.hex), LAMBDA bytes :
             decode_events(IterationDecoder, bytes)))

\* the hex of blob b is fine and the event decoder fails on it
DecoderFails(b) ==
    With(hexstr_to_vec(b.hex), LAMBDA unhex :
        IsOk(unhex) /\ IsErr(decode_events(IterationDecoder, unhex.val)))

\* C1: a blob that is not valid hex is skipped: with a sound blob holding
\* the target behind it in the feed, the wait is still going on (it has
\* not returned an error because of the malformed blob).
C1_MalformedHexSkipped ==
    ( /\ received # <<>>
      /\ Last(received).kind = "badhex"
      /\ queue # <<>>
      /\ Head(queue).kind = "sound"
      /\ TargetPositions(Head(queue)) # {} )
    => pc = "awaiting"

\* C2: the typed wait returns Ok only when the matched event's argument
\* bytes are exactly as long as the encoding of OracleCreatedArgs; surplus
\* or missing bytes give an error.
C2_StrictPayload ==
    (pc = "done" /\ IsOk(raw_result)
       /\ Len(raw_result.val.data) # OracleIdSize + AccountIdSize)
    => IsErr(result)

\* C3: when the channel is closed (no sender left, queue drained) while the
\* wait is still going on, the wait is not blocked: its next step is
\* enabled, and every such step returns the channel's error (never Ok).
C3_ClosedChannelTerminates ==
    (pc = "awaiting" /\ senders = 0 /\ queue = <<>>)
    => /\ ENABLED WaitStep
       /\ ~ENABLED (WaitStep /\ ~(pc' = "returned" /\ raw_result' = ClosedError))

C3_Witness ==
    /\ raw_result = ClosedError
    /\ senders = 0
    /\ received # <<>>
    /\ \A i \in 1..Len(received) : TargetPositions(received[i]) = {}

C5_NoMatchKeepsWaiting ==
    [][ ( /\ received' # received
          /\ DecodesOk(Head(queue))
          /\ TargetPositions(Head(queue)) = {} )
        => (pc' = "awaiting" /\ raw_result' = None /\ queue' = Tail(queue)) ]_vars

C5_Witness ==
    /\ received # <<>>
    /\ DecodesOk(Last(received))
    /\ Last(received).events # <<>>
    /\ TargetPositions(Last(received)) = {}
    /\ pc = "awaiting"

\* C6: a blob on which the event decoder fails does not end the wait: right
\* after it the wait is still going on (or has since met a closed
\* channel), and a sound blob with the target received after it is matched
\* and its first target returned.
C6_DecoderFailureSkipped ==
    \A i \in 1..Len(received) :
        DecoderFails(received[i]) =>
            /\ (i = Len(received) => raw_result \in {None, ClosedError})
            /\ ( ( /\ i < Len(received)
                   /\ Last(received).kind = "sound"
                   /\ TargetPositions(Last(received)) # {} )
                 => raw_result = Ok(RawOf(FirstTarget(Last(received)))) )

C6_Witness ==
    /\ Len(received) = 2
    /\ DecoderFails(received[1])
    /\ Last(received).kind = "sound"
    /\ IsOk(raw_result)

\* C7: an event the raw wait returns has exactly the module and the event
\* name asked for, and is an event the node emitted in the blob received
\* last.
C7_NoFalseMatch ==
    IsOk(raw_result) =>
        /\ raw_result.val.module = module
        /\ raw_result.val.variant = variant
        /\ \E i \in TargetPositions(Last(received)) :
              raw_result.val = RawOf(Last(received).events[i])

C7_Witness ==
    /\ IsOk(raw_result)
    /\ \E i \in 1..Len(Last(received).events) :
          LET e == Last(received).events[i]
          IN  e.module = module /\ e.variant # variant

\* C8: the event returned is the first target, in record order, of the
\* blob received last, and no blob received before it both decoded and
\* held a target.
C8_FirstMatchWins ==
    IsOk(raw_result) =>
        /\ TargetPositions(Last(received)) # {}
        /\ raw_result.val = RawOf(FirstTarget(Last(received)))
        /\ \A i \in 1..(Len(received) - 1) :
              DecodesOk(received[i]) => TargetPositions(received[i]) = {}

C8_Witness ==
    /\ IsOk(raw_result)
    /\ Cardinality(TargetPositions(Last(received))) = 2
    /\ Len(received) = 2

\* C9: when the matched OracleCreated event's arguments are the encoding of
\* an identifier followed by an account, the typed wait returns that
\* identifier as oracle and that account as creater.
C9_TypedDecode ==
    \A id \in {7, 8, 9}, who \in {Alice, Bob} :
        ( /\ pc = "done"
          /\ IsOk(raw_result)
          /\ raw_result.val.variant = "OracleCreated"
          /\ raw_result.val.data = u32_encode(id) \o who )
        => result = Ok([oracle |-> id, creater |-> who])

C9_Witness ==
    /\ pc = "done"
    /\ IsOk(raw_result)
    /\ raw_result.val.variant = "OracleCreated"
    /\ result = Ok([oracle |-> 7, creater |-> Alice])

\* C10: registering a name that is bound already succeeds and changes
\* nothing when the size is the bound one, and fails, leaving the binding
\* as it was, when the size differs.
C10_RegistrationDeterministic ==
    [][ (reg_call'.tag = "Call" /\ reg_call'.name \in DOMAIN registry.type_sizes)
        => /\ registry' = registry
           /\ IF registry.type_sizes[reg_call'.name] = reg_call'.size
              THEN IsOk(reg_result')
              ELSE IsErr(reg_result') ]_vars

C10_Witness ==
    /\ reg_call = [tag |-> "Call", name |-> "OracleId", size |-> 2]
    /\ IsErr(reg_result)
    /\ registry.type_sizes["OracleId"] = OracleIdSize

\* the first record of blob b that the client's decoder cannot size: an
\* event with an argument type that has no registered size (0 when none)
FirstUnsized(b) ==
    IF \E i \in 1..Len(b.events) : b.events[i].module = "Assets"
    THEN CHOOSE i \in 1..Len(b.events) :
             /\ b.events[i].module = "Assets"
             /\ \A j \in 1..(i - 1) : b.events[j].module # "Assets"
    ELSE 0

\* C11: when the decoder fails on a record of a blob and the target occurs
\* in that blob before the failing record, the wait returns that earlier
\* occurrence: only the rest of the blob is lost.
C11_EarlierTargetReturned ==
    ( /\ received # <<>>
      /\ Last(received).kind = "unsized"
      /\ \E i \in TargetPositions(Last(received)) :
             i < FirstUnsized(Last(received)) )
    => raw_result = Ok(RawOf(FirstTarget(Last(received))))

\* C12: in main, once the subscription has dropped its Sender and the
\* channel is drained, the wait is not blocked: its next step (the return
\* of recv's error) is enabled.
C12_SubscriptionDropEndsWait ==
    (pc = "awaiting" /\ main_pc > 0 /\ sub = "dropped" /\ queue = <<>>)
    => ENABLED WaitStep

\* The wait thread is scheduled: an iteration that can run does run
FairSpec == Spec /\ WF_vars(WaitStep)

\* blob b is well-formed (so it decodes) and holds no occurrence of the
\* target
Quiet(b) == b.kind = "sound" /\ TargetPositions(b) = {}

\* every blob received so far was Quiet
AllQuiet == \A i \in 1..Len(received) : Quiet(received[i])

\* the queue holds a sound blob with the target behind Quiet blobs only
TargetQueued ==
    \E k \in 1..Len(queue) :
        /\ queue[k].kind = "sound"
        /\ TargetPositions(queue[k]) # {}
        /\ \A j \in 1..(k - 1) : Quiet(queue[j])

\* C13: while a Sender is open and every blob received decoded without
\* the target, the wait has not returned; and once a sound blob with the
\* target is queued behind such blobs only, the wait, when scheduled,
\* returns Ok.
C13_MatchOrClosure ==
    /\ []((AllQuiet /\ senders > 0) => pc = "awaiting")
    /\ (pc = "awaiting" /\ AllQuiet /\ TargetQueued) ~> IsOk(raw_result)

C13_Witness ==
    /\ senders > 0
    /\ Len(received) = 2
    /\ Quiet(received[1])
    /\ Len(received[1].events) > 0
    /\ Last(received).kind = "sound"
    /\ IsOk(raw_result)

\* C14: the blobs received followed by the blobs still queued are the blobs
\* sent, in the order sent (none lost, none read twice, none overtaken);
\* a step receives at most one blob, the one at the head of the queue; and
\* when the wait has returned Ok, the last blob received is the one with
\* the match, so every later blob is still in the queue.
C14_ExactlyOnceFifo ==
    /\ [](/\ sent = received \o queue
          /\ IsOk(raw_result) =>
                /\ received # <<>>
                /\ \E i \in TargetPositions(Last(received)) :
                       raw_result.val = RawOf(Last(received).events[i]))
    /\ [][received' # received =>
             /\ queue # <<>>
             /\ received' = Append(received, Head(queue))
             /\ queue' = Tail(queue)]_vars

C14_Witness ==
    /\ IsOk(raw_result)
    /\ queue # <<>>
    /\ \E i \in TargetPositions(Last(received)) :
           /\ raw_result.val = RawOf(Last(received).events[i])
           /\ i < Len(Last(received).events)

Picked(seq, P) ==
    [k \in 1..Cardinality(P) |->
        seq[CHOOSE i \in P : Cardinality({j \in P : j < i}) = k - 1]]

\* C16: with two waits on one channel, the blobs taken off the channel are
\* shared out between them: every blob sent is in the queue still or was
\* received by exactly one of the two, each wait receiving its share in the
\* order sent.
C16_AtMostOneReceiver ==
    LET taken == Len(sent) - Len(queue)
    IN  /\ taken = Len(received) + Len(other.received)
        /\ queue = SubSeq(sent, taken + 1, Len(sent))
        /\ \E P \in SUBSET (1..taken) :
              /\ received = Picked(sent, P)
              /\ other.received = Picked(sent, (1..taken) \ P)

\* the first wait can no longer see its target: the only blob that held it
\* went to the second wait, which has returned, and the channel is closed
\* and drained
C16_Witness ==
    /\ pc = "awaiting"
    /\ other.pc = "returned"
    /\ senders = 0
    /\ queue = <<>>
    /\ \A i \in 1..Len(received) : TargetPositions(received[i]) = {}
    /\ \E i \in 1..Len(other.received) :
          /\ other.received[i].kind = "sound"
          /\ TargetPositions(other.received[i]) # {}

\* seq ends with tail
IsSuffix(tail, seq) ==
    /\ Len(tail) <= Len(seq)
    /\ tail = SubSeq(seq, Len(seq) - Len(tail) + 1, Len(seq))

\* C17: in main a submission is made only with the subscription set up,
\* and the wait is entered only after a submission that succeeded; while
\* the subscription lives, the blobs of the blocks produced after the
\* submission are all on the channel's record, in order, each of them
\* received by the wait already or still queued for it.
C17_NoLossBeforeWait ==
    /\ submits > 0 => sub # "none"
    /\ pc # "idle" => submit_ok = "ok"
    /\ sent = received \o queue
    /\ sub = "active" => IsSuffix(emitted, sent)

\* the confirmation is produced after the submission and before main has
\* entered the wait: it sits in the queue
C17_Witness ==
    /\ pc = "idle"
    /\ submit_ok = "ok"
    /\ sub = "active"
    /\ emitted # <<>>
    /\ queue # <<>>
    /\ Last(queue) = Last(emitted)
    /\ Last(queue).kind = "sound"
    /\ TargetPositions(Last(queue)) # {}

\* C18: send_extrinsic is called at most once, and after a submission that
\* failed main has panicked: it runs no further statement and the wait is
\* never entered.
C18_SubmittedOnce ==
    /\ submits <= 1
    /\ submit_ok = "err" =>
          /\ panicked
          /\ Statement = "none"
          /\ pc = "idle"
          /\ ~ENABLED (MainSubmit \/ MainWait \/ WaitStep)

C18_Witness ==
    /\ submits = 1
    /\ submit_ok = "err"
    /\ panicked
    /\ sub = "active"

=============================================================================
